---- MODULE Spec2Model ----
(***************************************************************************)
(* Lunar Runner '47: the simulation core of the App component.             *)
(*                                                                         *)
(* The React component keeps its state in hooks.  Every setGameState call  *)
(* queues an updater; the updaters run in order against the newest state   *)
(* ("prev"), and a commit hands the result to the next render.  The model  *)
(* keeps both: gameState / generatedContracts are the newest values (all   *)
(* queued updaters applied), view is what the last commit rendered, which  *)
(* is what the closures of the handlers and effects read.                  *)
(*                                                                         *)
(* Numbers.  fuel is kept in units of 1/FuelUnit litre, so that the burn   *)
(* of one frame, dist * fuelEfficiency * 0.5 / 120, is the integer dist.   *)
(* flightProgress is kept in millionths.  Coordinates are integers and     *)
(* an orbit angle is read off a cosine table with one entry per 30 degrees.*)
(***************************************************************************)
EXTENDS Integers, Sequences, FiniteSets, TLC

(***************************************************************************)
(* Bounds of the exploration (not program constants).                      *)
(***************************************************************************)
\* What one run may use up: animation frames, frames the player lets pass
\* while docked, wait commands, and the rare outcomes of the random source
\* (hull hits, rival snatches, replenishment / recovery spawns).
MaxFrames == 3
MaxIdle == 1
MaxWaits == 1
MaxHits == 1
MaxSnatches == 1
MaxSpawns == 1
\* A long haul: enough frames for four flights, no random outcomes.
HaulFrames == 488
HaulWaits == 1
\* A rough flight: one flight and a few frames, and hull hits enough to
\* wear the hull out.
RoughFrames == 124
RoughHits == 21
\* A long stay in dock: idle frames and waits enough to meet a penalty tick.
DockFrames == 20
DockWaits == 2
\* A delivery: one flight and a few frames, and waits enough for offers to
\* expire.
CourierFrames == 124
CourierWaits == 3
\* A relay: two flights, so that a contract taken at the first port of call
\* can be delivered.
RelayFrames == 246
\* A lull: the pilot waits in dock while the pool is snatched from,
\* replenished and expires.
LullFrames == 1

\* frames of a run of four flights with a stop at the pump
PumpFrames == 485

(***************************************************************************)
(* Program constants.                                                      *)
(***************************************************************************)
LOG_MAX_LENGTH == 5
flightDurationFrames == 120
TICKS_TO_WAIT == 500
numContracts == 3
hazardDamage == 5
repairCostPerHp == 2
reputationGain == 5
penaltyPeriod == 60
penaltyAlertPeriod == 300
replenishFloor == 3
minDuration == 1500
CENTER_X == 400
CENTER_Y == 300

\* Fixed-point scales of the model.
FuelUnit == 240
ProgressOne == 1000000
AngleStep == 30

\* INITIAL_SHIP_STATS, fuel in fuel units.
ship == [fuelEfficiency |-> 1, maxFuel |-> 500 * FuelUnit, maxHull |-> 100]

(***************************************************************************)
(* LOCATIONS: three of the eight entries of the table (two stations with   *)
(* a fuel pump and different factions, and the neutral moon).  Angles in   *)
(* degrees, orbitSpeed in hundredths of a degree per tick, fuelPrice in    *)
(* tenths of a credit per litre (0: no pump).                              *)
(***************************************************************************)
LOCATIONS ==
  << [id |-> "station-x33", faction |-> "X33", fuelPrice |-> 12,
      orbitRadius |-> 100, orbitSpeed |-> 20, initialAngle |-> 0],
     [id |-> "station-x99", faction |-> "X99", fuelPrice |-> 6,
      orbitRadius |-> 115, orbitSpeed |-> 18, initialAngle |-> 240],
     [id |-> "moon-glimmer", faction |-> "NEUTRAL", fuelPrice |-> 0,
      orbitRadius |-> 310, orbitSpeed |-> 4, initialAngle |-> 0] >>

LocationIds == {LOCATIONS[i].id : i \in 1..Len(LOCATIONS)}

Factions == {"X33", "X63", "X99", "NEUTRAL"}

\* LOCATIONS.find(l => l.id === id)
FindLocation(id) == CHOOSE l \in {LOCATIONS[i] : i \in 1..Len(LOCATIONS)} : l.id = id

\* CONTRACT_TEMPLATES, and the templates, risk levels and durations the
\* random source draws from in this exploration.
CONTRACT_TEMPLATES ==
  << [title |-> "Diplomatic Envoy", basePay |-> 400],
     [title |-> "Mining Equipment", basePay |-> 250],
     [title |-> "Perishable Food", basePay |-> 300],
     [title |-> "Unmarked Crates", basePay |-> 600],
     [title |-> "Refugee Transport", basePay |-> 150],
     [title |-> "Spare Parts", basePay |-> 200] >>

TemplateDraws == {5}
RiskDraws == {"LOW"}
DurationDraws == {0}
\* Indices floor(Math.random() * destinations.length) the random source yields.
DestDraws == {0}

(***************************************************************************)
(* Sequence helpers standing for the array methods the code uses.          *)
(***************************************************************************)
\* arr.slice(0, n)
Slice(s, n) == SubSeq(s, 1, IF Len(s) < n THEN Len(s) ELSE n)

\* arr.splice(idx, 1), idx counted from 1
RemoveAt(s, idx) == SubSeq(s, 1, idx - 1) \o SubSeq(s, idx + 1, Len(s))

\* arr.filter(p) for the two filters of the code
RECURSIVE FilterUnexpired(_, _)
FilterUnexpired(s, now) ==
  IF s = << >> THEN << >>
  ELSE (IF Head(s).expiresAt > now THEN << Head(s) >> ELSE << >>)
       \o FilterUnexpired(Tail(s), now)

RECURSIVE FilterOtherId(_, _)
FilterOtherId(s, id) ==
  IF s = << >> THEN << >>
  ELSE (IF Head(s).id # id THEN << Head(s) >> ELSE << >>)
       \o FilterOtherId(Tail(s), id)

RECURSIVE FilterOtherLocation(_, _)
FilterOtherLocation(s, id) ==
  IF s = << >> THEN << >>
  ELSE (IF Head(s).id # id THEN << Head(s) >> ELSE << >>)
       \o FilterOtherLocation(Tail(s), id)

Min(a, b) == IF a < b THEN a ELSE b
Max(a, b) == IF a > b THEN a ELSE b

(***************************************************************************)
(* Orbits and distances.                                                   *)
(***************************************************************************)
\* 1000 * cos of a multiple of AngleStep degrees
CosTable == << 1000, 866, 500, 0, -500, -866, -1000, -866, -500, 0, 500, 866 >>

Cos1000(deg) == CosTable[((deg % 360) \div AngleStep) + 1]
Sin1000(deg) == Cos1000(deg + 270)

\* getDynamicLocations(time), for one location
Coords(loc, time) ==
  LET angleDeg == loc.initialAngle + (loc.orbitSpeed * time) \div 100
  IN  [x |-> CENTER_X + (loc.orbitRadius * Cos1000(angleDeg)) \div 1000,
       y |-> CENTER_Y + (loc.orbitRadius * Sin1000(angleDeg)) \div 1000]

\* Math.sqrt on the integers: the largest r with r * r <= n, found by
\* bisection of lo..hi (lo * lo <= n < (hi + 1) * (hi + 1)).
RECURSIVE SqrtBetween(_, _, _)
SqrtBetween(n, lo, hi) ==
  IF lo >= hi THEN lo
  ELSE LET mid == (lo + hi + 1) \div 2
       IN  IF mid * mid <= n THEN SqrtBetween(n, mid, hi)
           ELSE SqrtBetween(n, lo, mid - 1)

ISqrt(n) == SqrtBetween(n, 0, 1024)

getDistance(p1, p2) ==
  ISqrt((p2.x - p1.x) * (p2.x - p1.x) + (p2.y - p1.y) * (p2.y - p1.y))

\* Distance between two locations as the render at gameTime = time sees it.
Distance(fromId, toId, time) ==
  getDistance(Coords(FindLocation(fromId), time), Coords(FindLocation(toId), time))

\* getFuelCost(dist) = dist * fuelEfficiency * 0.5, in fuel units
getFuelCost(dist) == dist * ship.fuelEfficiency * (FuelUnit \div 2)

\* The burn of one frame: (instantDist * fuelEfficiency * 0.5) * (1 / 120)
FuelBurn(dist) == getFuelCost(dist) \div flightDurationFrames

\* progressIncrement = 1 / flightDurationFrames.  In IEEE doubles 120
\* additions of 1/120 give 0.9999999999999989 and the 121st gives
\* 1.0083333333333322; the truncated fixed-point value repeats that.
progressIncrement == ProgressOne \div flightDurationFrames


(***************************************************************************)
(* Contracts.                                                              *)
(***************************************************************************)
\* null for activeContract
NoContract ==
  [id |-> << >>, title |-> "", destinationId |-> "null", pay |-> 0,
   riskLevel |-> "", faction |-> "", expiresAt |-> 0]

RiskPay(risk) == IF risk = "HIGH" THEN 200 ELSE IF risk = "MED" THEN 80 ELSE 0

\* The outcomes of the Math.random() calls of one generateNewContract call.
GenDraws(stationId) ==
  LET destinations == FilterOtherLocation(LOCATIONS, stationId)
  IN  [template : TemplateDraws,
       dest : {d \in DestDraws : d < Len(destinations)},
       risk : RiskDraws,
       duration : DurationDraws]

\* generateNewContract(stationId, currentTime, indexOffset).  The id is
\* `cnt-${Date.now()}-${indexOffset}`; the wall clock and gameTime both grow
\* from frame to frame, and the id carries gameTime for Date.now().
generateNewContract(stationId, currentTime, indexOffset, draw) ==
  LET station == FindLocation(stationId)
      template == CONTRACT_TEMPLATES[draw.template]
      destinations == FilterOtherLocation(LOCATIONS, stationId)
      dest == destinations[draw.dest + 1]
  IN  [id |-> << currentTime, indexOffset >>,
       title |-> template.title,
       destinationId |-> dest.id,
       pay |-> template.basePay + RiskPay(draw.risk),
       riskLevel |-> draw.risk,
       faction |-> station.faction,
       expiresAt |-> currentTime + minDuration + draw.duration]

\* indexOffset of a replenishment or recovery contract: Math.random(), a
\* fraction, never one of the offsets 0, 1, 2 of a spawn.
RandomOffset == numContracts

\* spawnContractsForLocation(stationId, currentTime): the pools it can set.
spawnContractsForLocation(stationId, currentTime) ==
  { [i \in 1..numContracts |->
        generateNewContract(stationId, currentTime, i - 1, draws[i])] :
    draws \in [1..numContracts -> GenDraws(stationId)] }

(***************************************************************************)
(* State.                                                                  *)
(***************************************************************************)
VARIABLES
  gameState,            \* useState<GameState>: all queued updaters applied
  generatedContracts,   \* useState<Contract[]>: the open offer pool
  gameOver,             \* useState(false)
  fuelToAdd,            \* useState<number>: the fuel slider, in fuel units
  view,                 \* what the last commit rendered (the closures' values)
  phase,                \* "sync": a commit is due now; "stale": updates are
                        \* queued; "clean": the view is the state
  luck,                 \* what is left of the allowances of the run
  lastOp                \* the last operation and its outcome

vars == << gameState, generatedContracts, gameOver, fuelToAdd, view, phase,
           luck, lastOp >>

\* The initial useState values of App.
InitialGameState ==
  [credits |-> 150,
   fuel |-> 400 * FuelUnit,
   hull |-> 100,
   currentLocationId |-> "station-x33",
   reputation |-> [f \in Factions |->
      IF f = "X33" THEN 50 ELSE IF f = "X63" THEN 40
      ELSE IF f = "X99" THEN 20 ELSE 0],
   gameTime |-> 0,
   isFlying |-> FALSE,
   flightProgress |-> 0,
   flightOriginId |-> "null",
   flightDestinationId |-> "null",
   activeContract |-> NoContract,
   logs |-> << "SYSTEM INIT...", "DOCKED AT X-33 LIBERTY." >>]

Allowance ==
  [frames |-> MaxFrames, idle |-> MaxIdle, waits |-> MaxWaits,
   hits |-> MaxHits, snatches |-> MaxSnatches, spawns |-> MaxSpawns]

\* The state after construction, before the first commit.
Constructed(allowance) ==
  /\ gameState = InitialGameState
  /\ generatedContracts = << >>
  /\ gameOver = FALSE
  /\ fuelToAdd = 0
  /\ view = [mounted |-> FALSE, gameState |-> InitialGameState,
             generatedContracts |-> << >>]
  /\ phase = "sync"
  /\ luck = allowance
  /\ lastOp = [op |-> "init", arg |-> "", result |-> ""]

Init == Constructed(Allowance)

LongHaul ==
  [frames |-> HaulFrames, idle |-> 0, waits |-> HaulWaits,
   hits |-> 0, snatches |-> 0, spawns |-> 0]

RoughFlight ==
  [frames |-> RoughFrames, idle |-> 0, waits |-> 0,
   hits |-> RoughHits, snatches |-> 0, spawns |-> 0]

InitFlight == \E allowance \in {LongHaul, RoughFlight} : Constructed(allowance)

\* The log keeps the text of its newest entry; an entry that is no longer
\* the newest is kept as "(older)".
Older(logs) == [i \in 1..Len(logs) |-> "(older)"]

\* [msg, ...logs].slice(0, LOG_MAX_LENGTH)
PushLog(msg, logs) == Slice(<< msg >> \o Older(logs), LOG_MAX_LENGTH)

\* addLog(msg): the updater it queues
addLog(prev, msg) == [prev EXCEPT !.logs = PushLog(msg, prev.logs)]

(***************************************************************************)
(* updateGameLoop: one animation frame.  The loop is started by            *)
(* startGameLoop and nothing cancels it while the component is mounted.    *)
(***************************************************************************)
\* updateGameLoop as it would be if an accepted contract lapsed at its
\* expiresAt like an offer does.
updateGameLoopExpiresActive(prev) ==
  LET fee == prev.activeContract # NoContract /\ ~prev.isFlying
             /\ prev.currentLocationId # "null"
             /\ prev.gameTime % penaltyPeriod = 0
      alert == fee /\ prev.gameTime % penaltyAlertPeriod = 0
      lapsed == prev.activeContract # NoContract
                /\ prev.activeContract.expiresAt <= prev.gameTime
  IN  [prev EXCEPT
         !.credits = IF fee THEN Max(0, prev.credits - 1) ELSE prev.credits,
         !.logs = IF alert
                  THEN PushLog("ALERT: DOCKING OVERTIME PENALTY -1CR", prev.logs)
                  ELSE prev.logs,
         !.activeContract = IF lapsed THEN NoContract ELSE prev.activeContract,
         !.gameTime = prev.gameTime + 1]

\* updateGameLoop as it would be if the docking fee did not depend on an
\* accepted contract.
updateGameLoopFeeWithoutContract(prev) ==
  LET fee == ~prev.isFlying
             /\ prev.currentLocationId # "null"
             /\ prev.gameTime % penaltyPeriod = 0
      alert == fee /\ prev.gameTime % penaltyAlertPeriod = 0
  IN  [prev EXCEPT
         !.credits = IF fee THEN Max(0, prev.credits - 1) ELSE prev.credits,
         !.logs = IF alert
                  THEN PushLog("ALERT: DOCKING OVERTIME PENALTY -1CR", prev.logs)
                  ELSE prev.logs,
         !.gameTime = prev.gameTime + 1]

updateGameLoop(prev) ==
  LET fee == prev.activeContract # NoContract /\ ~prev.isFlying
             /\ prev.currentLocationId # "null"
             /\ prev.gameTime % penaltyPeriod = 0
      alert == fee /\ prev.gameTime % penaltyAlertPeriod = 0
  IN  [prev EXCEPT
         !.credits = IF fee THEN Max(0, prev.credits - 1) ELSE prev.credits,
         !.logs = IF alert
                  THEN PushLog("ALERT: DOCKING OVERTIME PENALTY -1CR", prev.logs)
                  ELSE prev.logs,
         !.gameTime = prev.gameTime + 1]

\* A frame is committed before the next one starts, so a tick finds a clean
\* view; the frames the player idles through while docked are bounded.  The
\* loop is never cancelled, so it goes on ticking on the game-over screen.
Tick ==
  /\ phase = "clean"
  /\ luck.frames > 0
  /\ gameState.isFlying \/ gameOver \/ luck.idle > 0
  /\ gameState' = updateGameLoop(gameState)
  /\ luck' = [luck EXCEPT
        !.frames = luck.frames - 1,
        !.idle = IF gameState.isFlying \/ gameOver THEN luck.idle
                 ELSE luck.idle - 1]
  /\ phase' = "stale"
  /\ lastOp' = [op |-> "Tick", arg |-> "", result |-> ""]
  /\ UNCHANGED << generatedContracts, gameOver, fuelToAdd, view >>


\* The contract maintenance effect as it would be if the recovery of an
\* empty pool did not look at isFlying.
MaintenanceOutcomesRecoversInFlight(g, gc, lk) ==
  IF Len(gc) > 0
  THEN
    LET now == g.gameTime
        unexpired == FilterUnexpired(gc, now)
        snatchIdx == IF lk.snatches > 0
                     THEN 0..Len(unexpired) ELSE {0}
        afterSnatch(i) == IF i = 0 THEN unexpired ELSE RemoveAt(unexpired, i)
        news(i) == IF Len(afterSnatch(i)) < replenishFloor
                      /\ g.currentLocationId # "null" /\ lk.spawns > 0
                   THEN {<< >>} \cup
                        {<< generateNewContract(g.currentLocationId, now,
                                                RandomOffset, d) >> :
                           d \in GenDraws(g.currentLocationId)}
                   ELSE {<< >>}
    IN  UNION { { [set |-> Len(afterSnatch(i) \o n) # Len(gc),
                       contracts |-> afterSnatch(i) \o n,
                       snatched |-> i # 0,
                       spawned |-> n # << >>,
                       logged |-> i # 0 /\ Len(afterSnatch(i) \o n) # Len(gc)] :
                      n \in news(i) } : i \in snatchIdx }
  ELSE IF g.currentLocationId # "null" /\ lk.spawns > 0
  THEN { [set |-> FALSE, contracts |-> gc, snatched |-> FALSE,
          spawned |-> FALSE, logged |-> FALSE] } \cup
       { [set |-> TRUE,
          contracts |-> << generateNewContract(g.currentLocationId, g.gameTime,
                                               RandomOffset, d) >>,
          snatched |-> FALSE, spawned |-> TRUE, logged |-> FALSE] :
         d \in GenDraws(g.currentLocationId) }
  ELSE { [set |-> FALSE, contracts |-> gc, snatched |-> FALSE,
          spawned |-> FALSE, logged |-> FALSE] }

\* The contract maintenance effect as it would be if it replenished
\* without looking at the count of open offers.
MaintenanceOutcomesUnbounded(g, gc, lk) ==
  IF Len(gc) > 0
  THEN
    LET now == g.gameTime
        unexpired == FilterUnexpired(gc, now)
        snatchIdx == IF lk.snatches > 0
                     THEN 0..Len(unexpired) ELSE {0}
        afterSnatch(i) == IF i = 0 THEN unexpired ELSE RemoveAt(unexpired, i)
        news(i) == IF g.currentLocationId # "null" /\ lk.spawns > 0
                   THEN {<< >>} \cup
                        {<< generateNewContract(g.currentLocationId, now,
                                                RandomOffset, d) >> :
                           d \in GenDraws(g.currentLocationId)}
                   ELSE {<< >>}
    IN  UNION { { [set |-> Len(afterSnatch(i) \o n) # Len(gc),
                       contracts |-> afterSnatch(i) \o n,
                       snatched |-> i # 0,
                       spawned |-> n # << >>,
                       logged |-> i # 0 /\ Len(afterSnatch(i) \o n) # Len(gc)] :
                      n \in news(i) } : i \in snatchIdx }
  ELSE IF g.currentLocationId # "null" /\ ~g.isFlying /\ lk.spawns > 0
  THEN { [set |-> FALSE, contracts |-> gc, snatched |-> FALSE,
          spawned |-> FALSE, logged |-> FALSE] } \cup
       { [set |-> TRUE,
          contracts |-> << generateNewContract(g.currentLocationId, g.gameTime,
                                               RandomOffset, d) >>,
          snatched |-> FALSE, spawned |-> TRUE, logged |-> FALSE] :
         d \in GenDraws(g.currentLocationId) }
  ELSE { [set |-> FALSE, contracts |-> gc, snatched |-> FALSE,
          spawned |-> FALSE, logged |-> FALSE] }

(***************************************************************************)
(* The effects a commit runs, in the order the component declares them.    *)
(* g and gc are the rendered gameState and generatedContracts.             *)
(***************************************************************************)
\* The contract maintenance effect (deps: gameTime).  Each outcome says
\* whether setGeneratedContracts was called, with what, and whether the
\* rival-runner entry was logged.
MaintenanceOutcomes(g, gc, lk) ==
  IF Len(gc) > 0
  THEN
    LET now == g.gameTime
        unexpired == FilterUnexpired(gc, now)
        snatchIdx == IF lk.snatches > 0
                     THEN 0..Len(unexpired) ELSE {0}
        afterSnatch(i) == IF i = 0 THEN unexpired ELSE RemoveAt(unexpired, i)
        news(i) == IF Len(afterSnatch(i)) < replenishFloor
                      /\ g.currentLocationId # "null" /\ lk.spawns > 0
                   THEN {<< >>} \cup
                        {<< generateNewContract(g.currentLocationId, now,
                                                RandomOffset, d) >> :
                           d \in GenDraws(g.currentLocationId)}
                   ELSE {<< >>}
    IN  UNION { { [set |-> Len(afterSnatch(i) \o n) # Len(gc),
                       contracts |-> afterSnatch(i) \o n,
                       snatched |-> i # 0,
                       spawned |-> n # << >>,
                       logged |-> i # 0 /\ Len(afterSnatch(i) \o n) # Len(gc)] :
                      n \in news(i) } : i \in snatchIdx }
  ELSE IF g.currentLocationId # "null" /\ ~g.isFlying /\ lk.spawns > 0
  THEN { [set |-> FALSE, contracts |-> gc, snatched |-> FALSE,
          spawned |-> FALSE, logged |-> FALSE] } \cup
       { [set |-> TRUE,
          contracts |-> << generateNewContract(g.currentLocationId, g.gameTime,
                                               RandomOffset, d) >>,
          snatched |-> FALSE, spawned |-> TRUE, logged |-> FALSE] :
         d \in GenDraws(g.currentLocationId) }
  ELSE { [set |-> FALSE, contracts |-> gc, snatched |-> FALSE,
          spawned |-> FALSE, logged |-> FALSE] }

\* The updater of the flight loop effect as it would be if the exhaustion
\* check looked at the fuel only.
FlightUpdateHullUnchecked(prev, fuelBurn, hit) ==
  IF prev.fuel <= 0
  THEN [kind |-> "gameover", over |-> TRUE,
        state |-> [prev EXCEPT !.isFlying = FALSE,
                     !.logs = << "CRITICAL FAILURE." >> \o Older(prev.logs)]]
  ELSE IF prev.flightProgress >= ProgressOne
  THEN [kind |-> "arrival", over |-> FALSE,
        state |-> [prev EXCEPT
           !.isFlying = FALSE,
           !.flightProgress = 0,
           !.currentLocationId = prev.flightDestinationId,
           !.flightOriginId = "null",
           !.flightDestinationId = "null",
           !.logs = PushLog("ARRIVED.", prev.logs)]]
  ELSE
    LET damage == IF hit THEN hazardDamage ELSE 0
    IN  [kind |-> IF hit THEN "hazard" ELSE "progress", over |-> FALSE,
         state |-> [prev EXCEPT
            !.flightProgress = prev.flightProgress + progressIncrement,
            !.fuel = prev.fuel - fuelBurn,
            !.hull = prev.hull - damage,
            !.logs = IF damage > 0 THEN PushLog("ALERT: HULL DAMAGE", prev.logs)
                     ELSE prev.logs]]

\* The updater of the flight loop effect as it would be if the arrival test
\* came before the exhaustion check.
FlightUpdateArrivalFirst(prev, fuelBurn, hit) ==
  IF prev.flightProgress >= ProgressOne
  THEN [kind |-> "arrival", over |-> FALSE,
        state |-> [prev EXCEPT
           !.isFlying = FALSE,
           !.flightProgress = 0,
           !.currentLocationId = prev.flightDestinationId,
           !.flightOriginId = "null",
           !.flightDestinationId = "null",
           !.logs = PushLog("ARRIVED.", prev.logs)]]
  ELSE IF prev.fuel <= 0 \/ prev.hull <= 0
  THEN [kind |-> "gameover", over |-> TRUE,
        state |-> [prev EXCEPT !.isFlying = FALSE,
                     !.logs = << "CRITICAL FAILURE." >> \o Older(prev.logs)]]
  ELSE
    LET damage == IF hit THEN hazardDamage ELSE 0
    IN  [kind |-> IF hit THEN "hazard" ELSE "progress", over |-> FALSE,
         state |-> [prev EXCEPT
            !.flightProgress = prev.flightProgress + progressIncrement,
            !.fuel = prev.fuel - fuelBurn,
            !.hull = prev.hull - damage,
            !.logs = IF damage > 0 THEN PushLog("ALERT: HULL DAMAGE", prev.logs)
                     ELSE prev.logs]]

\* The updater of the flight loop effect as it would be if the arrival
\* branch, like the game-over branch, left the route of the flight in place.
FlightUpdateKeepsRoute(prev, fuelBurn, hit) ==
  IF prev.fuel <= 0 \/ prev.hull <= 0
  THEN [kind |-> "gameover", over |-> TRUE,
        state |-> [prev EXCEPT !.isFlying = FALSE,
                     !.logs = << "CRITICAL FAILURE." >> \o Older(prev.logs)]]
  ELSE IF prev.flightProgress >= ProgressOne
  THEN [kind |-> "arrival", over |-> FALSE,
        state |-> [prev EXCEPT
           !.isFlying = FALSE,
           !.flightProgress = 0,
           !.currentLocationId = prev.flightDestinationId,
           !.logs = PushLog("ARRIVED.", prev.logs)]]
  ELSE
    LET damage == IF hit THEN hazardDamage ELSE 0
    IN  [kind |-> IF hit THEN "hazard" ELSE "progress", over |-> FALSE,
         state |-> [prev EXCEPT
            !.flightProgress = prev.flightProgress + progressIncrement,
            !.fuel = prev.fuel - fuelBurn,
            !.hull = prev.hull - damage,
            !.logs = IF damage > 0 THEN PushLog("ALERT: HULL DAMAGE", prev.logs)
                     ELSE prev.logs]]

\* The updater of the flight loop effect as it would be if a payout raised
\* the reputation of the contract's faction whatever the faction.
FlightUpdateNeutralRep(prev, fuelBurn, hit) ==
  IF prev.fuel <= 0 \/ prev.hull <= 0
  THEN [kind |-> "gameover", over |-> TRUE,
        state |-> [prev EXCEPT !.isFlying = FALSE,
                     !.logs = << "CRITICAL FAILURE." >> \o Older(prev.logs)]]
  ELSE IF prev.flightProgress >= ProgressOne
  THEN
    LET arrivalId == prev.flightDestinationId
        paid == prev.activeContract # NoContract
                /\ prev.activeContract.destinationId = arrivalId
        fac == prev.activeContract.faction
    IN  [kind |-> IF paid THEN "payout" ELSE "arrival", over |-> FALSE,
         state |-> [prev EXCEPT
            !.isFlying = FALSE,
            !.flightProgress = 0,
            !.currentLocationId = arrivalId,
            !.flightOriginId = "null",
            !.flightDestinationId = "null",
            !.activeContract = IF paid THEN NoContract ELSE prev.activeContract,
            !.credits = IF paid THEN prev.credits + prev.activeContract.pay
                        ELSE prev.credits,
            !.reputation = IF paid
                           THEN [prev.reputation EXCEPT
                                   ![fac] = prev.reputation[fac] + reputationGain]
                           ELSE prev.reputation,
            !.logs = PushLog(IF paid THEN "JOB DONE." ELSE "ARRIVED.", prev.logs)]]
  ELSE
    LET damage == IF hit THEN hazardDamage ELSE 0
    IN  [kind |-> IF hit THEN "hazard" ELSE "progress", over |-> FALSE,
         state |-> [prev EXCEPT
            !.flightProgress = prev.flightProgress + progressIncrement,
            !.fuel = prev.fuel - fuelBurn,
            !.hull = prev.hull - damage,
            !.logs = IF damage > 0 THEN PushLog("ALERT: HULL DAMAGE", prev.logs)
                     ELSE prev.logs]]

\* The updater of the flight loop effect as it would be if the exhaustion
\* check looked at the hull only.
FlightUpdateFuelUnchecked(prev, fuelBurn, hit) ==
  IF prev.hull <= 0
  THEN [kind |-> "gameover", over |-> TRUE,
        state |-> [prev EXCEPT !.isFlying = FALSE,
                     !.logs = << "CRITICAL FAILURE." >> \o Older(prev.logs)]]
  ELSE IF prev.flightProgress >= ProgressOne
  THEN
    LET arrivalId == prev.flightDestinationId
        paid == prev.activeContract # NoContract
                /\ prev.activeContract.destinationId = arrivalId
        fac == prev.activeContract.faction
    IN  [kind |-> IF paid THEN "payout" ELSE "arrival", over |-> FALSE,
         state |-> [prev EXCEPT
            !.isFlying = FALSE,
            !.flightProgress = 0,
            !.currentLocationId = arrivalId,
            !.flightOriginId = "null",
            !.flightDestinationId = "null",
            !.activeContract = IF paid THEN NoContract ELSE prev.activeContract,
            !.credits = IF paid THEN prev.credits + prev.activeContract.pay
                        ELSE prev.credits,
            !.reputation = IF paid /\ fac # "NEUTRAL"
                           THEN [prev.reputation EXCEPT
                                   ![fac] = prev.reputation[fac] + reputationGain]
                           ELSE prev.reputation,
            !.logs = PushLog(IF paid THEN "JOB DONE." ELSE "ARRIVED.", prev.logs)]]
  ELSE
    LET damage == IF hit THEN hazardDamage ELSE 0
    IN  [kind |-> IF hit THEN "hazard" ELSE "progress", over |-> FALSE,
         state |-> [prev EXCEPT
            !.flightProgress = prev.flightProgress + progressIncrement,
            !.fuel = prev.fuel - fuelBurn,
            !.hull = prev.hull - damage,
            !.logs = IF damage > 0 THEN PushLog("ALERT: HULL DAMAGE", prev.logs)
                     ELSE prev.logs]]

\* The updater of the flight loop effect (deps: isFlying, gameTime), for a
\* frame whose burn is fuelBurn and whose hazard draw is hit.
FlightUpdate(prev, fuelBurn, hit) ==
  IF prev.fuel <= 0 \/ prev.hull <= 0
  THEN [kind |-> "gameover", over |-> TRUE,
        state |-> [prev EXCEPT !.isFlying = FALSE,
                     !.logs = << "CRITICAL FAILURE." >> \o Older(prev.logs)]]
  ELSE IF prev.flightProgress >= ProgressOne
  THEN
    LET arrivalId == prev.flightDestinationId
        paid == prev.activeContract # NoContract
                /\ prev.activeContract.destinationId = arrivalId
        fac == prev.activeContract.faction
    IN  [kind |-> IF paid THEN "payout" ELSE "arrival", over |-> FALSE,
         state |-> [prev EXCEPT
            !.isFlying = FALSE,
            !.flightProgress = 0,
            !.currentLocationId = arrivalId,
            !.flightOriginId = "null",
            !.flightDestinationId = "null",
            !.activeContract = IF paid THEN NoContract ELSE prev.activeContract,
            !.credits = IF paid THEN prev.credits + prev.activeContract.pay
                        ELSE prev.credits,
            !.reputation = IF paid /\ fac # "NEUTRAL"
                           THEN [prev.reputation EXCEPT
                                   ![fac] = prev.reputation[fac] + reputationGain]
                           ELSE prev.reputation,
            !.logs = PushLog(IF paid THEN "JOB DONE." ELSE "ARRIVED.", prev.logs)]]
  ELSE
    LET damage == IF hit THEN hazardDamage ELSE 0
    IN  [kind |-> IF hit THEN "hazard" ELSE "progress", over |-> FALSE,
         state |-> [prev EXCEPT
            !.flightProgress = prev.flightProgress + progressIncrement,
            !.fuel = prev.fuel - fuelBurn,
            !.hull = prev.hull - damage,
            !.logs = IF damage > 0 THEN PushLog("ALERT: HULL DAMAGE", prev.logs)
                     ELSE prev.logs]]

\* The flight loop effect: it returns at once unless the rendered state is
\* flying; the burn is computed from the rendered positions.
FlightOutcomes(g, prev, lk) ==
  IF ~g.isFlying \/ g.flightDestinationId = "null" \/ g.flightOriginId = "null"
  THEN { [kind |-> "none", over |-> FALSE, state |-> prev] }
  ELSE
    LET instantDist == Distance(g.flightOriginId, g.flightDestinationId, g.gameTime)
        fuelBurn == FuelBurn(instantDist)
        hits == IF lk.hits > 0 THEN BOOLEAN ELSE {FALSE}
    IN  { FlightUpdate(prev, fuelBurn, hit) : hit \in hits }

\* The spawn-on-arrival effect (deps: currentLocationId, isFlying).
SpawnOutcomes(g) ==
  IF ~g.isFlying /\ g.currentLocationId # "null"
  THEN spawnContractsForLocation(g.currentLocationId, g.gameTime)
  ELSE { << >> }

(***************************************************************************)
(* A commit: the queued updates are rendered, and the effects whose deps   *)
(* changed since the last commit run and queue their own updates.          *)
(***************************************************************************)
Render ==
  /\ phase # "clean"
  /\ LET g == gameState
         gc == generatedContracts
         first == ~view.mounted
         timeChanged == first \/ g.gameTime # view.gameState.gameTime
         flyChanged == first \/ g.isFlying # view.gameState.isFlying
         locChanged == first
                       \/ g.currentLocationId # view.gameState.currentLocationId
         noMaint == [set |-> FALSE, contracts |-> gc, snatched |-> FALSE,
                     spawned |-> FALSE, logged |-> FALSE]
         spawns == locChanged \/ flyChanged
     IN  \E m \in (IF timeChanged THEN MaintenanceOutcomes(g, gc, luck)
                   ELSE {noMaint}) :
         LET logged == IF m.logged
                       THEN addLog(g, "ALERT: CONTRACT TAKEN BY RIVAL RUNNER.")
                       ELSE g
         IN  \E f \in (IF flyChanged \/ timeChanged
                       THEN FlightOutcomes(g, logged, luck)
                       ELSE {[kind |-> "none", over |-> FALSE, state |-> logged]}) :
             \E s \in (IF spawns THEN SpawnOutcomes(g) ELSE {<< >>}) :
               /\ gameState' = f.state
               /\ gameOver' = (gameOver \/ f.over)
               /\ generatedContracts' =
                    IF spawns /\ ~g.isFlying /\ g.currentLocationId # "null" THEN s
                    ELSE IF m.set THEN m.contracts
                    ELSE gc
               /\ fuelToAdd' = IF locChanged THEN 0 ELSE fuelToAdd
               /\ luck' = [luck EXCEPT
                    !.hits = luck.hits - (IF f.kind = "hazard" THEN 1 ELSE 0),
                    !.snatches = luck.snatches - (IF m.snatched THEN 1 ELSE 0),
                    !.spawns = luck.spawns - (IF m.spawned THEN 1 ELSE 0)]
               /\ view' = [mounted |-> TRUE, gameState |-> g,
                           generatedContracts |-> gc]
               /\ phase' = IF gameState' = g /\ generatedContracts' = gc
                              /\ gameOver' = gameOver
                           THEN "clean" ELSE "stale"
               /\ lastOp' = [op |-> "Render", arg |-> "", result |-> f.kind]


(***************************************************************************)
(* Commands.  A handler is a closure of the last commit: what it reads of  *)
(* gameState is view.gameState, while the updaters it queues run against   *)
(* the newest state.  A control exists only on the screen that renders it  *)
(* (docked, and not the game-over screen); the `disabled` attributes       *)
(* repeat the handlers' own checks and are not part of the handlers.       *)
(***************************************************************************)
\* Docked as it would be if the flight screen kept the dock's controls.
DockedOrFlying ==
  /\ phase \in {"clean", "stale"}
  /\ view.mounted
  /\ ~gameOver

Docked ==
  /\ phase \in {"clean", "stale"}
  /\ view.mounted
  /\ ~gameOver
  /\ ~view.gameState.isFlying

\* startTravel as it would be without its fuel check.
startTravelUnchecked(targetId) ==
  /\ Docked
  /\ targetId # view.gameState.currentLocationId
  /\ gameState' =
        [addLog(gameState, "TRAJECTORY LOCKED.") EXCEPT
           !.isFlying = TRUE,
           !.flightOriginId = view.gameState.currentLocationId,
           !.flightDestinationId = targetId,
           !.flightProgress = 0]
  /\ lastOp' = [op |-> "startTravel", arg |-> targetId, result |-> "ok"]
  /\ phase' = "sync"
  /\ UNCHANGED << generatedContracts, gameOver, fuelToAdd, view, luck >>

\* startTravel as it would be if the trip's fuel were paid on departure.
startTravelPrepaid(targetId) ==
  /\ Docked
  /\ targetId # view.gameState.currentLocationId
  /\ LET shown == view.gameState
         dist == Distance(shown.currentLocationId, targetId, shown.gameTime)
         fuelNeeded == getFuelCost(dist)
     IN  IF shown.fuel < fuelNeeded
         THEN /\ gameState' =
                   addLog(gameState, "ERROR: INSUFFICIENT FUEL FOR TRAJECTORY.")
              /\ lastOp' = [op |-> "startTravel", arg |-> targetId,
                            result |-> "rejected"]
         ELSE /\ gameState' =
                   [addLog(gameState, "TRAJECTORY LOCKED.") EXCEPT
                      !.isFlying = TRUE,
                      !.flightOriginId = shown.currentLocationId,
                      !.flightDestinationId = targetId,
                      !.flightProgress = 0,
                      !.fuel = gameState.fuel - fuelNeeded]
              /\ lastOp' = [op |-> "startTravel", arg |-> targetId,
                            result |-> "ok"]
  /\ phase' = "sync"
  /\ UNCHANGED << generatedContracts, gameOver, fuelToAdd, view, luck >>

startTravel(targetId) ==
  /\ Docked
  /\ targetId # view.gameState.currentLocationId
  /\ LET shown == view.gameState
         dist == Distance(shown.currentLocationId, targetId, shown.gameTime)
         fuelNeeded == getFuelCost(dist)
     IN  IF shown.fuel < fuelNeeded
         THEN /\ gameState' =
                   addLog(gameState, "ERROR: INSUFFICIENT FUEL FOR TRAJECTORY.")
              /\ lastOp' = [op |-> "startTravel", arg |-> targetId,
                            result |-> "rejected"]
         ELSE /\ gameState' =
                   [addLog(gameState, "TRAJECTORY LOCKED.") EXCEPT
                      !.isFlying = TRUE,
                      !.flightOriginId = shown.currentLocationId,
                      !.flightDestinationId = targetId,
                      !.flightProgress = 0]
              /\ lastOp' = [op |-> "startTravel", arg |-> targetId,
                            result |-> "ok"]
  /\ phase' = "sync"
  /\ UNCHANGED << generatedContracts, gameOver, fuelToAdd, view, luck >>

\* handleWait as it would be if the skipped ticks charged the docking
\* overtime penalty.
handleWaitChargesDocking ==
  /\ Docked
  /\ luck.waits > 0
  /\ LET fees == IF gameState.activeContract # NoContract
                 THEN TICKS_TO_WAIT \div penaltyPeriod ELSE 0
     IN  gameState' = [gameState EXCEPT
           !.gameTime = gameState.gameTime + TICKS_TO_WAIT,
           !.credits = Max(0, gameState.credits - fees),
           !.logs = PushLog("WAITING FOR ALIGNMENT...", gameState.logs)]
  /\ phase' = "sync"
  /\ luck' = [luck EXCEPT !.waits = luck.waits - 1]
  /\ lastOp' = [op |-> "handleWait", arg |-> "", result |-> "ok"]
  /\ UNCHANGED << generatedContracts, gameOver, fuelToAdd, view >>

handleWait ==
  /\ Docked
  /\ luck.waits > 0
  /\ gameState' = [gameState EXCEPT
        !.gameTime = gameState.gameTime + TICKS_TO_WAIT,
        !.logs = PushLog("WAITING FOR ALIGNMENT...", gameState.logs)]
  /\ phase' = "sync"
  /\ luck' = [luck EXCEPT !.waits = luck.waits - 1]
  /\ lastOp' = [op |-> "handleWait", arg |-> "", result |-> "ok"]
  /\ UNCHANGED << generatedContracts, gameOver, fuelToAdd, view >>

\* handleAcceptContract as it would be if the offer stayed in the pool.
handleAcceptContractKeepsOffer(c) ==
  /\ Docked
  /\ IF view.gameState.activeContract # NoContract
     THEN /\ gameState' = addLog(gameState, "ERROR: ACTIVE CONTRACT IN PROGRESS.")
          /\ lastOp' = [op |-> "handleAcceptContract", arg |-> "",
                        result |-> "rejected"]
     ELSE /\ gameState' = [gameState EXCEPT
                !.activeContract = c,
                !.logs = PushLog("ACCEPTED.", gameState.logs)]
          /\ lastOp' = [op |-> "handleAcceptContract", arg |-> "",
                        result |-> "ok"]
  /\ phase' = "sync"
  /\ UNCHANGED << generatedContracts, gameOver, fuelToAdd, view, luck >>

\* handleAcceptContract as it would be without its active-contract check.
handleAcceptContractReplaces(c) ==
  /\ Docked
  /\ gameState' = [gameState EXCEPT
        !.activeContract = c,
        !.logs = PushLog("ACCEPTED.", gameState.logs)]
  /\ generatedContracts' = FilterOtherId(generatedContracts, c.id)
  /\ lastOp' = [op |-> "handleAcceptContract", arg |-> "", result |-> "ok"]
  /\ phase' = "sync"
  /\ UNCHANGED << gameOver, fuelToAdd, view, luck >>

\* handleAcceptContract as it would be if accepting an offer withdrew the
\* other offers too.
handleAcceptContractClearsPool(c) ==
  /\ Docked
  /\ IF view.gameState.activeContract # NoContract
     THEN /\ gameState' = addLog(gameState, "ERROR: ACTIVE CONTRACT IN PROGRESS.")
          /\ lastOp' = [op |-> "handleAcceptContract", arg |-> "",
                        result |-> "rejected"]
          /\ UNCHANGED generatedContracts
     ELSE /\ gameState' = [gameState EXCEPT
                !.activeContract = c,
                !.logs = PushLog("ACCEPTED.", gameState.logs)]
          /\ generatedContracts' = << >>
          /\ lastOp' = [op |-> "handleAcceptContract", arg |-> "",
                        result |-> "ok"]
  /\ phase' = "sync"
  /\ UNCHANGED << gameOver, fuelToAdd, view, luck >>

handleAcceptContract(c) ==
  /\ Docked
  /\ IF view.gameState.activeContract # NoContract
     THEN /\ gameState' = addLog(gameState, "ERROR: ACTIVE CONTRACT IN PROGRESS.")
          /\ lastOp' = [op |-> "handleAcceptContract", arg |-> "",
                        result |-> "rejected"]
          /\ UNCHANGED generatedContracts
     ELSE /\ gameState' = [gameState EXCEPT
                !.activeContract = c,
                !.logs = PushLog("ACCEPTED.", gameState.logs)]
          /\ generatedContracts' = FilterOtherId(generatedContracts, c.id)
          /\ lastOp' = [op |-> "handleAcceptContract", arg |-> "",
                        result |-> "ok"]
  /\ phase' = "sync"
  /\ UNCHANGED << gameOver, fuelToAdd, view, luck >>

\* maxBuyable of the fuel pump, in fuel units
MaxBuyable(shown) ==
  LET price == FindLocation(shown.currentLocationId).fuelPrice
      spaceEmpty == ship.maxFuel - shown.fuel
      maxAffordable == ((shown.credits * 10) \div price) * FuelUnit
  IN  Min(spaceEmpty, maxAffordable)

\* The [RESET] and [MAX] buttons of the fuel pump.
setFuelToAdd(toMax) ==
  /\ Docked
  /\ FindLocation(view.gameState.currentLocationId).fuelPrice > 0
  /\ fuelToAdd' = IF toMax THEN MaxBuyable(view.gameState) ELSE 0
  /\ fuelToAdd' # fuelToAdd
  /\ lastOp' = [op |-> "setFuelToAdd", arg |-> "", result |-> "ok"]
  /\ UNCHANGED << gameState, generatedContracts, gameOver, view, phase, luck >>

confirmRefuel ==
  /\ Docked
  /\ FindLocation(view.gameState.currentLocationId).fuelPrice > 0
  /\ LET price == FindLocation(view.gameState.currentLocationId).fuelPrice
         cost == (fuelToAdd * price) \div (10 * FuelUnit)
     IN  IF fuelToAdd <= 0 \/ view.gameState.credits < cost
         THEN /\ lastOp' = [op |-> "confirmRefuel", arg |-> "", result |-> "ignored"]
              /\ UNCHANGED << gameState, fuelToAdd, phase >>
         ELSE /\ gameState' = [gameState EXCEPT
                    !.fuel = Min(ship.maxFuel, gameState.fuel + fuelToAdd),
                    !.credits = gameState.credits - cost,
                    !.logs = PushLog("REFUELED.", gameState.logs)]
              /\ fuelToAdd' = 0
              /\ phase' = "sync"
              /\ lastOp' = [op |-> "confirmRefuel", arg |-> "", result |-> "ok"]
  /\ UNCHANGED << generatedContracts, gameOver, view, luck >>

handleRepair ==
  /\ Docked
  /\ LET hpNeeded == ship.maxHull - view.gameState.hull
         cost == hpNeeded * repairCostPerHp
     IN  IF hpNeeded <= 0
         THEN /\ lastOp' = [op |-> "handleRepair", arg |-> "", result |-> "ignored"]
              /\ UNCHANGED << gameState, phase >>
         ELSE IF view.gameState.credits >= cost
         THEN /\ gameState' = [gameState EXCEPT
                    !.hull = ship.maxHull,
                    !.credits = gameState.credits - cost,
                    !.logs = PushLog("HULL REPAIRED.", gameState.logs)]
              /\ phase' = "sync"
              /\ lastOp' = [op |-> "handleRepair", arg |-> "", result |-> "ok"]
         ELSE /\ gameState' = addLog(gameState, "INSUFFICIENT FUNDS.")
              /\ phase' = "sync"
              /\ lastOp' = [op |-> "handleRepair", arg |-> "", result |-> "rejected"]
  /\ UNCHANGED << generatedContracts, gameOver, fuelToAdd, view, luck >>

Next ==
  \/ Tick
  \/ Render
  \/ \E targetId \in LocationIds : startTravel(targetId)
  \/ handleWait
  \/ \E i \in 1..Len(view.generatedContracts) :
        handleAcceptContract(view.generatedContracts[i])
  \/ \E toMax \in BOOLEAN : setFuelToAdd(toMax)
  \/ confirmRefuel
  \/ handleRepair

Spec == Init /\ [][Next]_vars

\* The pilot only flies, waits and repairs: whole flights, one after the
\* other, from construction.
NextFlight ==
  \/ Tick
  \/ Render
  \/ \E targetId \in LocationIds : startTravel(targetId)
  \/ handleWait
  \/ handleRepair

SpecFlight == InitFlight /\ [][NextFlight]_vars

\* A stay in dock after a rough first flight: the ship left station-x33 on
\* the first frame, took fifteen hull hits and has just docked at
\* station-x99 (SpecFlight reaches this state, see WornDockReached).
WornGameState ==
  [InitialGameState EXCEPT
     !.fuel = 73494,
     !.hull = 25,
     !.currentLocationId = "station-x99",
     !.gameTime = 121,
     !.logs = << "ARRIVED.", "(older)", "(older)", "(older)", "(older)" >>]

WornDock(contracts) ==
  /\ gameState = WornGameState
  /\ generatedContracts = contracts
  /\ gameOver = FALSE
  /\ fuelToAdd = 0
  /\ view = [mounted |-> TRUE, gameState |-> WornGameState,
             generatedContracts |-> contracts]
  /\ phase = "clean"

WornDockReached ==
  \E contracts \in spawnContractsForLocation("station-x99", 121) :
     WornDock(contracts)

LongStay ==
  [frames |-> DockFrames, idle |-> DockFrames, waits |-> DockWaits,
   hits |-> 0, snatches |-> 0, spawns |-> 0]

InitDock ==
  /\ WornDockReached
  /\ luck = LongStay
  /\ lastOp = [op |-> "Render", arg |-> "", result |-> "none"]

SpecDock == InitDock /\ [][Next]_vars

\* The pilot only takes contracts, flies and waits.  One run is a delivery
\* with waits long enough for offers to expire; the other is the short run
\* of Spec, where the pool is replenished.
Courier ==
  [frames |-> CourierFrames, idle |-> 0, waits |-> CourierWaits,
   hits |-> 0, snatches |-> MaxSnatches, spawns |-> 0]

Relay ==
  [frames |-> RelayFrames, idle |-> 0, waits |-> 0,
   hits |-> 0, snatches |-> 0, spawns |-> 0]

Lull ==
  [frames |-> LullFrames, idle |-> LullFrames, waits |-> CourierWaits,
   hits |-> 0, snatches |-> MaxSnatches, spawns |-> MaxSpawns]

InitCourier ==
  \E allowance \in {Courier, Relay, Lull, Allowance} : Constructed(allowance)

NextCourier ==
  \/ Tick
  \/ Render
  \/ \E targetId \in LocationIds : startTravel(targetId)
  \/ handleWait
  \/ \E i \in 1..Len(view.generatedContracts) :
        handleAcceptContract(view.generatedContracts[i])

SpecCourier == InitCourier /\ [][NextCourier]_vars

\* The stops at which the pilot leaves the fuel slider, in litres.
SliderStops == {22}

\* The fuel slider: onChange sets fuelToAdd to the value chosen between 0
\* and maxBuyable.
slideFuelToAdd(litres) ==
  /\ Docked
  /\ FindLocation(view.gameState.currentLocationId).fuelPrice > 0
  /\ litres * FuelUnit <= MaxBuyable(view.gameState)
  /\ fuelToAdd' = litres * FuelUnit
  /\ fuelToAdd' # fuelToAdd
  /\ lastOp' = [op |-> "slideFuelToAdd", arg |-> "", result |-> "ok"]
  /\ UNCHANGED << gameState, generatedContracts, gameOver, view, phase, luck >>

\* The pilot only flies and buys fuel: flights one after the other from
\* construction, with no hazard and no change of the pool.
Pump ==
  [frames |-> PumpFrames, idle |-> 0, waits |-> 0,
   hits |-> 0, snatches |-> 0, spawns |-> 0]

InitPump == Constructed(Pump)

NextPump ==
  \/ Tick
  \/ Render
  \/ \E targetId \in LocationIds : startTravel(targetId)
  \/ \E litres \in SliderStops : slideFuelToAdd(litres)
  \/ confirmRefuel

SpecPump == InitPump /\ [][NextPump]_vars

(***************************************************************************)
(* The claims.                                                             *)
(***************************************************************************)

\* C1: in every reachable state 0 <= fuel <= ship.maxFuel: the per-frame
\* flight burn never takes the fuel below 0 and a refuel never raises it
\* above maxFuel.
FuelWithinTank ==
  /\ 0 <= gameState.fuel
  /\ gameState.fuel <= ship.maxFuel

\* C2: in every reachable state 0 <= hull <= ship.maxHull: hazard damage
\* never takes the hull below 0 and a repair never raises it above maxHull.
HullWithinBounds ==
  /\ 0 <= gameState.hull
  /\ gameState.hull <= ship.maxHull

\* A hazard has just taken the last of the hull.
HullWornOut ==
  /\ gameState.hull = 0
  /\ gameState.isFlying
  /\ lastOp.result = "hazard"

\* C3: in every reachable state isFlying is true if and only if
\* flightOriginId and flightDestinationId are both non-null.
FlightIdsIffFlying ==
  gameState.isFlying <=>
    (gameState.flightOriginId # "null" /\ gameState.flightDestinationId # "null")

\* C4: in every reachable state flightProgress lies in [0,1] while isFlying
\* is true, and is 0 whenever isFlying is false.
ProgressInRange ==
  IF gameState.isFlying
  THEN 0 <= gameState.flightProgress /\ gameState.flightProgress <= ProgressOne
  ELSE gameState.flightProgress = 0

\* C5: in every reachable state no offer of the open pool has the id of the
\* active contract (the active contract is the one value of the
\* activeContract field, so there is never more than one).
ActiveContractNotOffered ==
  gameState.activeContract # NoContract =>
    \A i \in 1..Len(generatedContracts) :
       generatedContracts[i].id # gameState.activeContract.id

\* The ship has docked away from the place its contract is for, and the
\* pool holds the offers spawned on this arrival.
UndeliveredOnArrival ==
  /\ gameState.activeContract # NoContract
  /\ ~gameState.isFlying
  /\ gameState.gameTime > 0
  /\ generatedContracts \in
       spawnContractsForLocation(gameState.currentLocationId, gameState.gameTime)

\* C6: in every reachable state credits >= 0, also when a tick's penalty
\* is applied between a command's balance check and its deduction.
CreditsNonNegative == gameState.credits >= 0

\* C7: once the game is over, no later step changes any field of gameState.
GameOverFreezesState == [][gameOver => gameState' = gameState]_vars

\* The flight loop effect runs in the next commit, on a flying ship.
FlightEffectDue ==
  /\ phase # "clean"
  /\ gameState.isFlying
  /\ \/ ~view.mounted
     \/ gameState.gameTime # view.gameState.gameTime
     \/ gameState.isFlying # view.gameState.isFlying

\* C8: a flight frame that starts with fuel <= 0 or hull <= 0 ends the game
\* and does nothing else: no progress, burn or hazard, and no arrival, even
\* when flightProgress >= 1.
ExhaustionCheckedFirst ==
  [][(/\ FlightEffectDue
      /\ lastOp'.op = "Render"
      /\ (gameState.fuel <= 0 \/ gameState.hull <= 0))
     => /\ gameOver'
        /\ ~gameState'.isFlying
        /\ gameState'.flightProgress = gameState.flightProgress
        /\ gameState'.fuel = gameState.fuel
        /\ gameState'.hull = gameState.hull
        /\ gameState'.credits = gameState.credits
        /\ gameState'.currentLocationId = gameState.currentLocationId
        /\ gameState'.activeContract = gameState.activeContract
        /\ gameState'.reputation = gameState.reputation]_vars

\* The game has just ended on a frame that would otherwise have been the
\* arrival.
ExhaustedOnArrivalFrame ==
  /\ gameOver
  /\ lastOp.result = "gameover"
  /\ gameState.flightProgress >= ProgressOne

\* The fuel cost of the trip to targetId, as the screen shows it.
ShownFuelCost(targetId) ==
  getFuelCost(Distance(gameState.currentLocationId, targetId,
                       view.gameState.gameTime))

\* C9: startTravel while docked with fuel below the cost of the trip is
\* rejected: isFlying stays false and credits, fuel, hull,
\* currentLocationId, flightOriginId, flightDestinationId, flightProgress
\* and activeContract are unchanged.
StartTravelRejected ==
  [][(/\ lastOp'.op = "startTravel"
      /\ ~gameState.isFlying
      /\ gameState.fuel < ShownFuelCost(lastOp'.arg))
     => /\ ~gameState'.isFlying
        /\ gameState'.credits = gameState.credits
        /\ gameState'.fuel = gameState.fuel
        /\ gameState'.hull = gameState.hull
        /\ gameState'.currentLocationId = gameState.currentLocationId
        /\ gameState'.flightOriginId = gameState.flightOriginId
        /\ gameState'.flightDestinationId = gameState.flightDestinationId
        /\ gameState'.flightProgress = gameState.flightProgress
        /\ gameState'.activeContract = gameState.activeContract]_vars

\* startTravel has just been invoked with too little fuel for the trip.
TravelRefused ==
  /\ lastOp.op = "startTravel"
  /\ ~gameState.isFlying
  /\ gameState.fuel < ShownFuelCost(lastOp.arg)

\* C10: startTravel while docked with fuel enough for the trip sets
\* isFlying, flightOriginId to the current location, flightDestinationId to
\* the target and flightProgress to 0, and leaves credits, fuel, hull,
\* currentLocationId, gameTime and activeContract unchanged.
StartTravelDeparts ==
  [][(/\ lastOp'.op = "startTravel"
      /\ ~gameState.isFlying
      /\ gameState.fuel >= ShownFuelCost(lastOp'.arg))
     => /\ gameState'.isFlying
        /\ gameState'.flightOriginId = gameState.currentLocationId
        /\ gameState'.flightDestinationId = lastOp'.arg
        /\ gameState'.flightProgress = 0
        /\ gameState'.credits = gameState.credits
        /\ gameState'.fuel = gameState.fuel
        /\ gameState'.hull = gameState.hull
        /\ gameState'.currentLocationId = gameState.currentLocationId
        /\ gameState'.gameTime = gameState.gameTime
        /\ gameState'.activeContract = gameState.activeContract]_vars

\* startTravel has just launched the ship while a tick was still to be
\* committed.
DepartedWithTickPending ==
  /\ lastOp.op = "startTravel"
  /\ gameState.isFlying
  /\ gameState.flightDestinationId = lastOp.arg
  /\ gameState.gameTime # view.gameState.gameTime

\* The flight loop effect runs in the next commit on a ship that has
\* fuel and hull left and has covered the whole way.
ArrivalDue ==
  /\ FlightEffectDue
  /\ gameState.flightProgress >= ProgressOne
  /\ gameState.fuel > 0
  /\ gameState.hull > 0

\* C11: the flight frame that finds flightProgress >= 1 (with fuel and hull
\* left) sets currentLocationId to the destination and isFlying to false,
\* clears flightOriginId and flightDestinationId, resets flightProgress to
\* 0, and changes neither fuel nor hull.
ArrivalSettles ==
  [][(ArrivalDue /\ lastOp'.op = "Render")
     => /\ gameState'.currentLocationId = gameState.flightDestinationId
        /\ ~gameState'.isFlying
        /\ gameState'.flightOriginId = "null"
        /\ gameState'.flightDestinationId = "null"
        /\ gameState'.flightProgress = 0
        /\ gameState'.fuel = gameState.fuel
        /\ gameState'.hull = gameState.hull]_vars

\* The ship has just arrived somewhere else than where it started.
JustArrived ==
  /\ lastOp.op = "Render"
  /\ lastOp.result \in {"arrival", "payout"}
  /\ ~gameState.isFlying
  /\ ~gameOver
  /\ gameState.currentLocationId # InitialGameState.currentLocationId
  /\ gameState.fuel < InitialGameState.fuel

\* C12: an arrival at the destination of the active contract adds exactly
\* the contract's pay to credits, adds exactly 5 to the reputation of the
\* contract's faction unless that faction is NEUTRAL (then no reputation
\* changes), and clears activeContract.
ArrivalPaysContract ==
  [][(/\ ArrivalDue
      /\ lastOp'.op = "Render"
      /\ gameState.activeContract # NoContract
      /\ gameState.activeContract.destinationId = gameState.flightDestinationId)
     => LET contract == gameState.activeContract
        IN  /\ gameState'.credits = gameState.credits + contract.pay
            /\ gameState'.reputation =
                 IF contract.faction # "NEUTRAL"
                 THEN [gameState.reputation EXCEPT
                         ![contract.faction] =
                            gameState.reputation[contract.faction] + 5]
                 ELSE gameState.reputation
            /\ gameState'.activeContract = NoContract]_vars

\* A contract of the NEUTRAL faction has just been paid.
NeutralJobPaid ==
  /\ lastOp.op = "Render"
  /\ lastOp.result = "payout"
  /\ gameState.activeContract = NoContract
  /\ gameState.credits > InitialGameState.credits
  /\ gameState.reputation = InitialGameState.reputation

\* C13: accepting an offer while a contract is active is rejected:
\* activeContract stays the contract accepted before and the pool is
\* unchanged.
SecondAcceptRejected ==
  [][(/\ lastOp'.op = "handleAcceptContract"
      /\ gameState.activeContract # NoContract)
     => /\ gameState'.activeContract = gameState.activeContract
        /\ generatedContracts' = generatedContracts]_vars

\* An offer has just been refused because a contract is active, with
\* offers on display.
AcceptRefused ==
  /\ lastOp.op = "handleAcceptContract"
  /\ lastOp.result = "rejected"
  /\ gameState.activeContract # NoContract
  /\ Len(generatedContracts) > 0

\* The ids of the offers of a pool.
OfferIds(pool) == { pool[i].id : i \in 1..Len(pool) }

\* C14: accepting an offer c with no contract active makes c the active
\* contract and takes it out of the pool; every other offer stays in the
\* pool, and credits, fuel, hull and location are unchanged.
AcceptMovesOffer ==
  [][(/\ lastOp'.op = "handleAcceptContract"
      /\ gameState.activeContract = NoContract)
     => /\ \E i \in 1..Len(view.generatedContracts) :
              gameState'.activeContract = view.generatedContracts[i]
        /\ gameState'.activeContract.id \notin OfferIds(generatedContracts')
        /\ \A i \in 1..Len(generatedContracts) :
              generatedContracts[i].id # gameState'.activeContract.id
              => \E j \in 1..Len(generatedContracts') :
                    generatedContracts'[j] = generatedContracts[i]
        /\ \A j \in 1..Len(generatedContracts') :
              \E i \in 1..Len(generatedContracts) :
                 generatedContracts[i] = generatedContracts'[j]
        /\ gameState'.credits = gameState.credits
        /\ gameState'.fuel = gameState.fuel
        /\ gameState'.hull = gameState.hull
        /\ gameState'.currentLocationId = gameState.currentLocationId]_vars

\* An offer has just been accepted and the two other offers of the spawn
\* are still on display.
OfferAccepted ==
  /\ lastOp.op = "handleAcceptContract"
  /\ lastOp.result = "ok"
  /\ gameState.activeContract # NoContract
  /\ Len(generatedContracts) = numContracts - 1
  /\ gameState.activeContract.id \notin OfferIds(generatedContracts)

\* The contract maintenance effect runs in the next commit.
MaintenanceDue ==
  /\ phase # "clean"
  /\ ~view.mounted \/ gameState.gameTime # view.gameState.gameTime

\* C15: after the maintenance pass of tick t the pool holds no offer with
\* expiresAt <= t, whatever snatch or replenishment happens in the pass.
ExpiredOffersDropped ==
  [][(MaintenanceDue /\ lastOp'.op = "Render")
     => \A i \in 1..Len(generatedContracts') :
           generatedContracts'[i].expiresAt > gameState.gameTime]_vars

\* The offers of a pool that are unexpired at time now and missing from
\* the pool after.
UnexpiredRemoved(pool, after, now) ==
  { i \in 1..Len(pool) :
      pool[i].expiresAt > now /\ pool[i].id \notin OfferIds(after) }

\* C16: a rival snatch that fires in a maintenance pass removes exactly one
\* unexpired offer from the pool and emits the rival-runner log entry, also
\* when a replenishment fires in the same pass.  (The entry counts as
\* emitted when the flight loop logs on top of it in the same commit.)
SnatchRemovesOneOffer ==
  [][(/\ MaintenanceDue
      /\ lastOp'.op = "Render"
      /\ luck'.snatches < luck.snatches)
     => /\ Cardinality(UnexpiredRemoved(generatedContracts, generatedContracts',
                                        gameState.gameTime)) = 1
        /\ \/ gameState'.logs[1] = "ALERT: CONTRACT TAKEN BY RIVAL RUNNER."
           \/ lastOp'.result \notin {"none", "progress"}]_vars

\* C17: an accepted contract never expires and is never snatched: the active
\* contract changes only by the arrival settlement at its destination, which
\* clears it and pays it; ticks, waits, arrivals elsewhere and gameTime
\* passing its expiresAt leave it in place.
ActiveContractKept ==
  [][(gameState.activeContract # NoContract
      /\ gameState'.activeContract # gameState.activeContract)
     => /\ ArrivalDue
        /\ lastOp'.op = "Render"
        /\ gameState'.activeContract = NoContract
        /\ gameState.flightDestinationId = gameState.activeContract.destinationId
        /\ gameState'.currentLocationId = gameState.activeContract.destinationId
        /\ gameState'.credits =
             gameState.credits + gameState.activeContract.pay]_vars

\* An arrival at a location other than the destination of the contract,
\* after its expiresAt, with the contract still held.
HeldPastExpiryElsewhere ==
  /\ lastOp.op = "Render"
  /\ lastOp.result = "arrival"
  /\ gameState.activeContract # NoContract
  /\ gameState.gameTime > gameState.activeContract.expiresAt
  /\ gameState.currentLocationId # gameState.activeContract.destinationId

\* The commit that follows an arrival: the last commit rendered the flight,
\* and the newest state is docked at that flight's destination.
AfterArrival ==
  /\ view.mounted
  /\ view.gameState.isFlying
  /\ ~gameState.isFlying
  /\ ~gameOver
  /\ gameState.currentLocationId = view.gameState.flightDestinationId

\* A pool as spawnContractsForLocation sets it at tick `now`.
SpawnedPool(pool, now) ==
  /\ Len(pool) = numContracts
  /\ \A i \in 1..Len(pool) : pool[i].id = << now, i - 1 >>

\* C18: the commit after an arrival replaces the offer pool with exactly 3
\* fresh contracts of the arrival location (its faction, created at the
\* arrival tick), and once the pool of construction is filled no other
\* event replaces the pool wholesale.
PoolReplacedOnArrivalOnly ==
  [][/\ (AfterArrival /\ lastOp'.op = "Render")
        => /\ SpawnedPool(generatedContracts', gameState.gameTime)
           /\ \A i \in 1..Len(generatedContracts') :
                /\ generatedContracts'[i].faction =
                     FindLocation(gameState.currentLocationId).faction
                /\ generatedContracts'[i].destinationId #
                     gameState.currentLocationId
     /\ (view.mounted /\ generatedContracts' # generatedContracts
         /\ SpawnedPool(generatedContracts', gameState.gameTime))
        => AfterArrival]_vars

\* C19: the wait command adds exactly 500 to gameTime in one step and
\* changes nothing else of the game state except the log, to which it
\* prepends its entry: credits (no docking penalty for the skipped ticks),
\* fuel, hull, location, flight fields and active contract are unchanged.
WaitOnlyAdvancesTime ==
  [][(lastOp'.op = "handleWait")
     => /\ gameState'.gameTime = gameState.gameTime + 500
        /\ gameState' = [gameState EXCEPT
                           !.gameTime = gameState'.gameTime,
                           !.logs = gameState'.logs]
        /\ gameState'.logs[1] = "WAITING FOR ALIGNMENT..."
        /\ Len(gameState'.logs) = Min(Len(gameState.logs) + 1, LOG_MAX_LENGTH)
        /\ generatedContracts' = generatedContracts
        /\ gameOver' = gameOver]_vars

\* A wait while docked with an accepted contract and credits to lose.
WaitedWithContract ==
  /\ lastOp.op = "handleWait"
  /\ gameState.activeContract # NoContract
  /\ gameState.credits > 0
  /\ ~gameState.isFlying

\* C20: a tick adds exactly 1 to gameTime; it takes the docking overtime
\* penalty only when a contract is active and the ship is docked (not
\* flying) at a location, and then only on a tick whose gameTime before the
\* increment is a multiple of 60: credits become max(0, credits - 1).  While
\* flying or without an active contract a tick never changes credits.
TickChargesDockedContract ==
  [][(lastOp'.op = "Tick")
     => LET due == /\ gameState.activeContract # NoContract
                   /\ ~gameState.isFlying
                   /\ gameState.currentLocationId # "null"
                   /\ gameState.gameTime % 60 = 0
        IN  /\ gameState'.gameTime = gameState.gameTime + 1
            /\ gameState'.credits =
                 IF due THEN Max(0, gameState.credits - 1)
                 ELSE gameState.credits
            /\ gameState' = [gameState EXCEPT
                               !.gameTime = gameState'.gameTime,
                               !.credits = gameState'.credits,
                               !.logs = gameState'.logs]]_vars

\* A tick at a multiple of 60 that charged a credit of a contract held at
\* the dock and left some.
DockingFeeCharged ==
  /\ lastOp.op = "Tick"
  /\ gameState.activeContract # NoContract
  /\ ~gameState.isFlying
  /\ gameState.currentLocationId # "null"
  /\ (gameState.gameTime - 1) % 60 = 0
  /\ gameState.credits > 0

\* The log entries by which a handler reports a command it rejects.
RejectionTexts ==
  { "ERROR: INSUFFICIENT FUEL FOR TRAJECTORY.",
    "ERROR: ACTIVE CONTRACT IN PROGRESS.",
    "INSUFFICIENT FUNDS." }

\* The last command was rejected for one of the reasons of C21: a travel
\* without the fuel, a second contract, a repair or a purchase without the
\* credits, a purchase of no fuel.
CommandRejected ==
  \/ lastOp.op \in {"startTravel", "handleAcceptContract", "handleRepair"}
     /\ lastOp.result = "rejected"
  \/ lastOp.op = "confirmRefuel" /\ lastOp.result = "ignored"

\* C21: every rejected command produces a distinguishable signal instead of
\* silently doing nothing: its step queues an update whose newest log entry
\* reports the rejection.
RejectedCommandsSignal ==
  [][CommandRejected'
     => /\ phase' = "sync"
        /\ gameState'.logs[1] \in RejectionTexts]_vars

\* C22: the log buffer is bounded and most-recent-first: no step leaves more
\* than LOG_MAX_LENGTH entries in logs, and a step that logs puts its new
\* message at index 0, ahead of the entries that were there (the game-over
\* transition included).
LogBounded ==
  [][/\ Len(gameState'.logs) <= LOG_MAX_LENGTH
     /\ gameState'.logs # gameState.logs
        => /\ Len(gameState'.logs) >= 1
           /\ gameState'.logs[1] # "(older)"
           /\ \A i \in 2..Len(gameState'.logs) :
                gameState'.logs[i] = "(older)"]_vars

\* C23: a flight ends only by the arrival settlement or by the game-over
\* transition: any other step taken in flight is a tick or a commit, keeps
\* isFlying, flightOriginId, flightDestinationId and currentLocationId, and
\* does not decrease flightProgress; no command aborts, restarts or
\* redirects a flight in progress.
FlightEndsByArrivalOrGameOver ==
  [][gameState.isFlying
     => \/ /\ lastOp'.op = "Render"
           /\ lastOp'.result \in {"arrival", "payout", "gameover"}
           /\ ~gameState'.isFlying
        \/ /\ lastOp'.op \in {"Tick", "Render"}
           /\ gameState'.isFlying
           /\ gameState'.flightOriginId = gameState.flightOriginId
           /\ gameState'.flightDestinationId = gameState.flightDestinationId
           /\ gameState'.currentLocationId = gameState.currentLocationId
           /\ gameState'.flightProgress >= gameState.flightProgress]_vars

\* A flight past its middle, after a tick.
MidFlight ==
  /\ gameState.isFlying
  /\ lastOp.op = "Tick"
  /\ 2 * gameState.flightProgress > ProgressOne
  /\ gameState.currentLocationId = gameState.flightOriginId

\* The tick at which the flight in progress burned its first share: one
\* progressIncrement has been added per tick since.
DepartureTime ==
  gameState.gameTime - gameState.flightProgress \div progressIncrement

\* The cost startTravel checked for the flight in progress.
DepartureCost ==
  getFuelCost(Distance(gameState.flightOriginId,
                       gameState.flightDestinationId, DepartureTime))

\* C24: planning and execution share the fuel cost: every frame of a flight
\* burns the 1/120 share of the cost checked at departure, and at arrival
\* the shares burned add up to that cost (up to the rounding of a tick and
\* one share), so that a ship leaving with fuel F on a route costing C
\* arrives with F - C.
BurnMatchesDepartureCost ==
  [][/\ (FlightEffectDue /\ lastOp'.op = "Render"
         /\ lastOp'.result \in {"progress", "hazard"})
        => gameState.fuel - gameState'.fuel =
             DepartureCost \div flightDurationFrames
     /\ (ArrivalDue /\ lastOp'.op = "Render")
        => LET shares == gameState.flightProgress \div progressIncrement
               burned == shares * (DepartureCost \div flightDurationFrames)
           IN  /\ burned - DepartureCost <=
                    DepartureCost \div flightDurationFrames
               /\ DepartureCost - burned <= flightDurationFrames]_vars

\* C25: in every reachable state every offer of the open pool has a
\* destinationId different from currentLocationId.
OffersLeadElsewhere ==
  \A i \in 1..Len(generatedContracts) :
     generatedContracts[i].destinationId # gameState.currentLocationId

\* C26: a flight that is not cut short by game over performs exactly 120
\* progress increments and is settled on the following flight frame,
\* whatever the distance: a frame that adds progress starts below 120
\* increments, and the frame that settles the arrival starts at 120.
FlightTakes120Increments ==
  [][/\ (FlightEffectDue /\ lastOp'.op = "Render"
         /\ lastOp'.result \in {"progress", "hazard"})
        => gameState.flightProgress \div progressIncrement
             < flightDurationFrames
     /\ (ArrivalDue /\ lastOp'.op = "Render")
        => gameState.flightProgress \div progressIncrement
             = flightDurationFrames]_vars

\* The origin-destination distance of the flight in progress has been the
\* same on every tick since departure.
SteadyRoute ==
  \A t \in DepartureTime..gameState.gameTime :
     Distance(gameState.flightOriginId, gameState.flightDestinationId, t)
       = Distance(gameState.flightOriginId, gameState.flightDestinationId,
                  DepartureTime)

PoolAtMostThree == Len(generatedContracts) <= numContracts

\* A pool that maintenance has replenished back to 3 offers.
ReplenishedToThree ==
  /\ Len(generatedContracts) = numContracts
  /\ \E i \in 1..Len(generatedContracts) :
        generatedContracts[i].id[2] = RandomOffset

\* C29: while the ship is in flight an offer pool that is empty stays
\* empty: neither replenishment nor forced recovery generates an offer
\* into an empty pool until the ship is docked again.
EmptyPoolStaysEmptyInFlight ==
  [][(gameState.isFlying /\ Len(generatedContracts) = 0)
     => Len(generatedContracts') = 0]_vars

\* A maintenance pass in flight on an empty pool, with a generation draw
\* still to come in the run.
EmptyPoolInFlight ==
  /\ lastOp.op = "Render"
  /\ gameState.isFlying
  /\ view.gameState.isFlying
  /\ gameState.flightProgress >= 2 * progressIncrement
  /\ Len(generatedContracts) = 0
  /\ Len(view.generatedContracts) = 0
  /\ luck.spawns > 0

\* C30: whenever the ship is docked and the game is not over, fuel > 0 and
\* hull > 0.
DockedShipIsSound ==
  (~gameState.isFlying /\ ~gameOver)
  => (gameState.fuel > 0 /\ gameState.hull > 0)

\* Docked after a flight that cost fuel and hull.
DockedAfterRoughFlight ==
  /\ ~gameState.isFlying
  /\ ~gameOver
  /\ lastOp.op = "Render"
  /\ lastOp.result = "arrival"
  /\ gameState.hull < ship.maxHull
  /\ gameState.fuel < InitialGameState.fuel

====
